---------------------------- MODULE Spec2Model ----------------------------
(***************************************************************************)
(* Model of .github/scripts/review.py: the diff splitter (the parsing loop *)
(* of CodeReviewer.get_pr_diff), the review-comment extractor              *)
(* (CodeReviewer._parse_review_comments) and the loop of                   *)
(* CodeReviewer.review_code that binds each transcript to its file.        *)
(*                                                                         *)
(* A Python str is a sequence of one-character strings, so that prefix     *)
(* tests, regular-expression searches, split, join and strip are computed  *)
(* character by character as the interpreter computes them.                *)
(***************************************************************************)
EXTENDS Integers, Sequences, FiniteSets, TLC

(***************************************************************************)
(* Bounds of the model.                                                    *)
(***************************************************************************)
MaxDiffLines == 3

MaxTranscriptLines == 3

MaxReviewLines == 2

(***************************************************************************)
(* Input lines.  Each is the character sequence of the quoted text.        *)
(***************************************************************************)
\* 'diff --git a/x b/x'
HdrX == <<"d", "i", "f", "f", " ", "-", "-", "g", "i", "t", " ", "a", "/", "x", " ", "b", "/", "x">>
\* 'diff --git a/lib/x b/lib/x'
HdrLib == <<"d", "i", "f", "f", " ", "-", "-", "g", "i", "t", " ", "a", "/", "l", "i", "b", "/", "x", " ", "b", "/", "l", "i", "b", "/", "x">>
\* 'diff --git a/y b/y\r'
HdrTrail == <<"d", "i", "f", "f", " ", "-", "-", "g", "i", "t", " ", "a", "/", "y", " ", "b", "/", "y", "\r">>
\* 'diff --git a/x'
HdrNoB == <<"d", "i", "f", "f", " ", "-", "-", "g", "i", "t", " ", "a", "/", "x">>
\* 'diff --git b/z'
HdrNoA == <<"d", "i", "f", "f", " ", "-", "-", "g", "i", "t", " ", "b", "/", "z">>
\* '+a'
BodyPlus == <<"+", "a">>
\* '@@'
BodyHunk == <<"@", "@">>
\* ''
Empty == <<>>
\* 'Line 5: issue A'
MarkA == <<"L", "i", "n", "e", " ", "5", ":", " ", "i", "s", "s", "u", "e", " ", "A">>
\* 'line 12: issue B'
MarkB == <<"l", "i", "n", "e", " ", "1", "2", ":", " ", "i", "s", "s", "u", "e", " ", "B">>
\* 'LINE 7: c'
MarkUpper == <<"L", "I", "N", "E", " ", "7", ":", " ", "c">>
\* 'Note: Line 5: issue'
MarkNote == <<"N", "o", "t", "e", ":", " ", "L", "i", "n", "e", " ", "5", ":", " ", "i", "s", "s", "u", "e">>
\* 'Line 0: z'
MarkZero == <<"L", "i", "n", "e", " ", "0", ":", " ", "z">>
\* 'Line abc: q'
MarkAbc == <<"L", "i", "n", "e", " ", "a", "b", "c", ":", " ", "q">>
\* '  more on A '
MoreA == <<" ", " ", "m", "o", "r", "e", " ", "o", "n", " ", "A", " ">>
\* ' \t'
Blank == <<" ", "\t">>

DiffLineSet == {HdrX, HdrLib, HdrTrail, HdrNoB, HdrNoA, BodyPlus, BodyHunk, Empty}

TranscriptLineSet ==
    {MarkA, MarkB, MarkUpper, MarkNote, MarkZero, MarkAbc, MoreA, Blank, Empty}

ReviewLineSet == {MarkA, MarkB, MoreA, Empty}

BoundedSeq(S, n) == UNION {[1..k -> S] : k \in 0..n}

(***************************************************************************)
(* str primitives.                                                         *)
(***************************************************************************)
NL == "\n"

\* The characters str.strip() removes, among those of the input lines.
Whitespace == {" ", "\t", "\r", "\n"}

Digits == {"0", "1", "2", "3", "4", "5", "6", "7", "8", "9"}

MinOf(S) == CHOOSE m \in S : \A n \in S : m <= n

MaxOf(S) == CHOOSE m \in S : \A n \in S : m >= n

\* s.startswith(p)
StartsWith(s, p) == Len(s) >= Len(p) /\ SubSeq(s, 1, Len(p)) = p

\* sep.join(ls) with sep = '\n'
RECURSIVE JoinNL(_)
JoinNL(ls) ==
    IF ls = <<>> THEN <<>>
    ELSE IF Len(ls) = 1 THEN ls[1]
    ELSE ls[1] \o <<NL>> \o JoinNL(Tail(ls))

\* s.split('\n'): always at least one piece, '' for the empty string.
RECURSIVE SplitNL(_)
SplitNL(s) ==
    LET at == {k \in 1..Len(s) : s[k] = NL}
    IN  IF at = {} THEN <<s>>
        ELSE <<SubSeq(s, 1, MinOf(at) - 1)>>
                 \o SplitNL(SubSeq(s, MinOf(at) + 1, Len(s)))

\* s.strip()
Strip(s) ==
    LET keep == {k \in 1..Len(s) : s[k] \notin Whitespace}
    IN  IF keep = {} THEN <<>> ELSE SubSeq(s, MinOf(keep), MaxOf(keep))

\* int(digits) of a non-empty run of decimal digits.
DigitVal(c) ==
    CASE c = "0" -> 0 [] c = "1" -> 1 [] c = "2" -> 2 [] c = "3" -> 3
      [] c = "4" -> 4 [] c = "5" -> 5 [] c = "6" -> 6 [] c = "7" -> 7
      [] c = "8" -> 8 [] c = "9" -> 9

RECURSIVE IntOf(_)
IntOf(ds) ==
    IF ds = <<>> THEN 0
    ELSE 10 * IntOf(SubSeq(ds, 1, Len(ds) - 1)) + DigitVal(ds[Len(ds)])

\* Python's None, as the value of a variable that otherwise holds a str.
None == <<"None">>

\* None, as the value of a variable that otherwise holds a dict.
NoComment == [none |-> TRUE]

\* bool(x) of a value that is None or a str.
Truthy(x) == x # None /\ x # <<>>

(***************************************************************************)
(* get_pr_diff: the loop that parses the diff.                             *)
(***************************************************************************)
DiffGit == <<"d", "i", "f", "f", " ", "-", "-", "g", "i", "t">>

\* line.startswith('diff --git')
IsHeader(line) == StartsWith(line, DiffGit)

\* Where re.search(r'b/(.+)$', line) matches: the leftmost 'b/' that has at
\* least one character after it; 0 for no match (None).
HeaderMatch(line) ==
    LET at == {p \in 1..Len(line) - 2 : line[p] = "b" /\ line[p + 1] = "/"}
    IN  IF at = {} THEN 0 ELSE MinOf(at)

\* re.search(r'b/(.+)$', line).group(1)
HeaderPath(line) == SubSeq(line, HeaderMatch(line) + 2, Len(line))

\* The lines one after the other, with nothing between them.
RECURSIVE Concat(_)
Concat(ls) == IF ls = <<>> THEN <<>> ELSE ls[1] \o Concat(Tail(ls))

\* Fragment with ''.join in place of '\n'.join.
FragmentJoinedWithoutNewline(file, diff) == [file |-> file, diff |-> Concat(diff)]

\* {'file': current_file, 'diff': '\n'.join(current_diff)}
Fragment(file, diff) == [file |-> file, diff |-> JoinNL(diff)]

\* if current_file: diff_files.append({...})
CloseFragment(s) ==
    IF Truthy(s.current_file)
    THEN Append(s.diff_files, Fragment(s.current_file, s.current_diff))
    ELSE s.diff_files

\* One iteration of `for line in response.text.split('\n')`, on the locals
\* s = (current_file, current_diff, diff_files); raised is set when
\* .group(1) is called on None.
SplitStep(s, line) ==
    IF IsHeader(line)
    THEN IF HeaderMatch(line) = 0
         THEN [s EXCEPT !.raised = TRUE]
         ELSE [current_file |-> HeaderPath(line),
               current_diff |-> <<line>>,
               diff_files   |-> CloseFragment(s),
               raised       |-> FALSE]
    ELSE IF Truthy(s.current_file)
         THEN [s EXCEPT !.current_diff = Append(@, line)]
         ELSE s

ScanInit ==
    [current_file |-> None, current_diff |-> <<>>, diff_files |-> <<>>,
     raised |-> FALSE]

RECURSIVE SplitFold(_, _)
SplitFold(s, ls) ==
    IF ls = <<>> \/ s.raised THEN s
    ELSE SplitFold(SplitStep(s, Head(ls)), Tail(ls))

\* The value get_pr_diff returns for response.text = text; None if it raises.
GetPrDiff(text) ==
    LET s == SplitFold(ScanInit, SplitNL(text))
    IN  IF s.raised THEN None ELSE CloseFragment(s)

(***************************************************************************)
(* _parse_review_comments.                                                 *)
(***************************************************************************)
\* The last index of the run of digits that starts at q; q - 1 if line[q]
\* is no digit.
DigitRunEnd(line, q) ==
    MaxOf({e \in (q - 1)..Len(line) : \A k \in q..e : line[k] \in Digits})

\* MarkerWords without the lower-case alternative.
MarkerWordsCapitalOnly == {<<"L", "i", "n", "e">>}

\* The alternatives of (?:Line|line).
MarkerWords == {<<"L", "i", "n", "e">>, <<"l", "i", "n", "e">>}

\* The places where r'(?:Line|line) (\d+):' matches in line.
MarkerStarts(line) ==
    {p \in 1..Len(line) - 6 :
        /\ SubSeq(line, p, p + 3) \in MarkerWords
        /\ line[p + 4] = " "
        /\ DigitRunEnd(line, p + 5) >= p + 5
        /\ DigitRunEnd(line, p + 5) < Len(line)
        /\ line[DigitRunEnd(line, p + 5) + 1] = ":"}

\* Where re.search(r'(?:Line|line) (\d+):', line) matches: the leftmost
\* place; 0 for no match (None).
MarkerMatch(line) ==
    IF MarkerStarts(line) = {} THEN 0 ELSE MinOf(MarkerStarts(line))

\* line_match.group(1)
MarkerDigits(line) ==
    SubSeq(line, MarkerMatch(line) + 5, DigitRunEnd(line, MarkerMatch(line) + 5))

\* line.split(':', 1)[1], for a line that holds a colon.
AfterFirstColon(line) ==
    SubSeq(line, MinOf({k \in 1..Len(line) : line[k] = ":"}) + 1, Len(line))

\* The dict a marker line opens.
NewComment(line, fname) ==
    [file    |-> fname,
     line    |-> IntOf(MarkerDigits(line)),
     content |-> Strip(AfterFirstColon(line))]

\* IsContinuation without the test of line.strip().
IsContinuationAlsoBlank(current, line) == current # NoComment

\* elif current_comment and line.strip()
IsContinuation(current, line) == current # NoComment /\ Strip(line) # <<>>

\* current_comment['content'] += '\n' + line.strip()
Continue(content, line) == content \o <<NL>> \o Strip(line)

\* if current_comment: comments.append(current_comment)
CloseComment(s) ==
    IF s.current_comment # NoComment
    THEN Append(s.comments, s.current_comment)
    ELSE s.comments

\* One iteration of `for line in review_text.split('\n')`, on the locals
\* s = (comments, current_comment).
ParseStep(s, line, fname) ==
    IF MarkerMatch(line) # 0
    THEN [comments |-> CloseComment(s),
          current_comment |-> NewComment(line, fname)]
    ELSE IF IsContinuation(s.current_comment, line)
         THEN [s EXCEPT !.current_comment.content = Continue(@, line)]
         ELSE s

(***************************************************************************)
(* review_code.                                                            *)
(***************************************************************************)
\* FileOf that takes the first fragment's file every time.
FileOfFirst(files, k) == files[1].file

\* file_diff['file'] of the fragment the loop is at.
FileOf(files, k) == files[k].file

\* review_comments.extend(comments)
Extend(all, more) == all \o more

(***************************************************************************)
(* State.                                                                  *)
(***************************************************************************)
VARIABLES
    pc,              \* where the program is
    lines,           \* response.text.split('\n') in get_pr_diff
    i,               \* index in lines of the next line of the loop
    current_file,    \* get_pr_diff locals
    current_diff,
    diff_files,
    fidx,            \* review_code: index in diff_files of file_diff
    responses,       \* review_code: response.content[0].text, per fragment
    review_comments,
    review_lines,    \* review_text.split('\n') in _parse_review_comments
    j,               \* index in review_lines of the next line of the loop
    filename,        \* _parse_review_comments argument and locals
    comments,
    current_comment

splitVars == <<lines, i, current_file, current_diff, diff_files>>

reviewVars == <<fidx, responses, review_comments>>

parseVars == <<review_lines, j, filename, comments, current_comment>>

vars == <<pc, splitVars, reviewVars, parseVars>>

Scan ==
    [current_file |-> current_file, current_diff |-> current_diff,
     diff_files |-> diff_files, raised |-> FALSE]

Parse == [comments |-> comments, current_comment |-> current_comment]

DiffTexts == {JoinNL(ls) : ls \in BoundedSeq(DiffLineSet, MaxDiffLines)}

Transcripts ==
    {JoinNL(ls) : ls \in BoundedSeq(TranscriptLineSet, MaxTranscriptLines)}

ReviewTexts == {JoinNL(ls) : ls \in BoundedSeq(ReviewLineSet, MaxReviewLines)}

\* The diffs the whole run is checked on.
MainDiffs ==
    {JoinNL(<<HdrX, BodyPlus>>),
     JoinNL(<<HdrX, BodyPlus, HdrLib>>),
     JoinNL(<<BodyHunk, HdrNoB>>),
     <<>>}

FileNames == {<<"x">>, <<"l", "i", "b", "/", "x">>}

SplitIdle ==
    /\ lines = <<>> /\ i = 1
    /\ current_file = None /\ current_diff = <<>> /\ diff_files = <<>>

ReviewIdle == fidx = 0 /\ responses = <<>> /\ review_comments = <<>>

ParseIdle ==
    /\ review_lines = <<>> /\ j = 1 /\ filename = None
    /\ comments = <<>> /\ current_comment = NoComment

SplitStart(texts) ==
    /\ pc = "split"
    /\ \E text \in texts : lines = SplitNL(text)
    /\ i = 1
    /\ current_file = None
    /\ current_diff = <<>>
    /\ diff_files = <<>>

\* get_pr_diff on a diff text, alone.
InitSplit == SplitStart(DiffTexts) /\ ReviewIdle /\ ParseIdle

\* _parse_review_comments(review_text, filename), alone.
InitExtract ==
    /\ pc = "parse"
    /\ \E text \in Transcripts : review_lines = SplitNL(text)
    /\ filename \in FileNames
    /\ j = 1
    /\ comments = <<>>
    /\ current_comment = NoComment
    /\ SplitIdle /\ ReviewIdle

\* main(): get_pr_diff, then review_code.
Init == SplitStart(MainDiffs) /\ ReviewIdle /\ ParseIdle

SplitApply(line) ==
    LET s == SplitStep(Scan, line)
    IN  /\ current_file' = s.current_file
        /\ current_diff' = s.current_diff
        /\ diff_files' = s.diff_files
        /\ pc' = IF s.raised THEN "raised" ELSE "split"
        /\ i' = i + 1
        /\ UNCHANGED <<lines, reviewVars, parseVars>>

\* A line that starts with 'diff --git' and has a 'b/<path>'.
SplitHeader ==
    /\ pc = "split" /\ i <= Len(lines)
    /\ IsHeader(lines[i]) /\ HeaderMatch(lines[i]) # 0
    /\ SplitApply(lines[i])

\* A line that starts with 'diff --git' and has no 'b/<path>': .group(1) of
\* None raises AttributeError, which leaves get_pr_diff.
SplitMalformedHeader ==
    /\ pc = "split" /\ i <= Len(lines)
    /\ IsHeader(lines[i]) /\ HeaderMatch(lines[i]) = 0
    /\ SplitApply(lines[i])

\* Any other line.
SplitBody ==
    /\ pc = "split" /\ i <= Len(lines)
    /\ ~IsHeader(lines[i])
    /\ SplitApply(lines[i])

\* After the loop: close the open fragment and return diff_files.
SplitReturn ==
    /\ pc = "split" /\ i > Len(lines)
    /\ diff_files' = CloseFragment(Scan)
    /\ pc' = "split_done"
    /\ UNCHANGED <<lines, i, current_file, current_diff, reviewVars, parseVars>>

ParseApply(line) ==
    LET s == ParseStep(Parse, line, filename)
    IN  /\ comments' = s.comments
        /\ current_comment' = s.current_comment
        /\ j' = j + 1
        /\ UNCHANGED <<pc, review_lines, filename, splitVars, reviewVars>>

\* A line the marker pattern matches.
ParseMarker ==
    /\ pc = "parse" /\ j <= Len(review_lines)
    /\ MarkerMatch(review_lines[j]) # 0
    /\ ParseApply(review_lines[j])

\* A non-blank line without marker while a comment is open.
ParseContinuation ==
    /\ pc = "parse" /\ j <= Len(review_lines)
    /\ MarkerMatch(review_lines[j]) = 0
    /\ IsContinuation(current_comment, review_lines[j])
    /\ ParseApply(review_lines[j])

\* A line that adds nothing.
ParseSkip ==
    /\ pc = "parse" /\ j <= Len(review_lines)
    /\ MarkerMatch(review_lines[j]) = 0
    /\ ~IsContinuation(current_comment, review_lines[j])
    /\ ParseApply(review_lines[j])

\* After the loop: close the open comment and return comments.
ParseReturn ==
    /\ pc = "parse" /\ j > Len(review_lines)
    /\ comments' = CloseComment(Parse)
    /\ pc' = "parsed"
    /\ UNCHANGED <<review_lines, j, filename, current_comment,
                   splitVars, reviewVars>>

\* main() hands get_pr_diff's result to review_code.
ReviewStart ==
    /\ pc = "split_done"
    /\ review_comments' = <<>>
    /\ fidx' = 1
    /\ pc' = "review"
    /\ UNCHANGED <<responses, splitVars, parseVars>>

\* The loop takes the next fragment, receives the transcript and calls
\* _parse_review_comments(response.content[0].text, file_diff['file']).
ReviewRequest ==
    /\ pc = "review" /\ fidx <= Len(diff_files)
    /\ \E text \in ReviewTexts :
          /\ responses' = Append(responses, text)
          /\ review_lines' = SplitNL(text)
    /\ filename' = FileOf(diff_files, fidx)
    /\ j' = 1
    /\ comments' = <<>>
    /\ current_comment' = NoComment
    /\ pc' = "parse"
    /\ UNCHANGED <<fidx, review_comments, splitVars>>

\* review_comments.extend(comments), and on to the next fragment.
ReviewCollect ==
    /\ pc = "parsed" /\ fidx >= 1
    /\ review_comments' = Extend(review_comments, comments)
    /\ fidx' = fidx + 1
    /\ pc' = "review"
    /\ UNCHANGED <<responses, splitVars, parseVars>>

\* return review_comments
ReviewReturn ==
    /\ pc = "review" /\ fidx > Len(diff_files)
    /\ pc' = "reviewed"
    /\ UNCHANGED <<splitVars, reviewVars, parseVars>>

NextSplit == SplitHeader \/ SplitMalformedHeader \/ SplitBody \/ SplitReturn

NextExtract == ParseMarker \/ ParseContinuation \/ ParseSkip \/ ParseReturn

NextReview == ReviewStart \/ ReviewRequest \/ ReviewCollect \/ ReviewReturn

Next == NextSplit \/ NextExtract \/ NextReview

SpecSplit == InitSplit /\ [][NextSplit]_vars

SpecExtract == InitExtract /\ [][NextExtract]_vars

Spec == Init /\ [][Next]_vars

(***************************************************************************)
(* Properties of the diff splitter (under SpecSplit).                      *)
(***************************************************************************)
\* The fragments of the scan so far: the closed ones, then the open one.
ScanFragments ==
    IF pc = "split" /\ Truthy(current_file)
    THEN Append(diff_files, Fragment(current_file, current_diff))
    ELSE diff_files

\* 'diff --git a/<P> b/<P>' followed by the whitespace w.
HeaderFor(P, w) ==
    DiffGit \o <<" ", "a", "/">> \o P \o <<" ", "b", "/">> \o P \o w

\* The paths P such that line is 'diff --git a/<P> b/<P>', possibly with
\* trailing whitespace.
NamedPaths(line) ==
    {SubSeq(line, 14, 13 + n) :
        n \in {n \in 1..Len(line) :
                 /\ 16 + 2 * n <= Len(line)
                 /\ line[13 + n] \notin Whitespace
                 /\ SubSeq(line, 1, 16 + 2 * n)
                        = HeaderFor(SubSeq(line, 14, 13 + n), <<>>)
                 /\ \A k \in (17 + 2 * n)..Len(line) : line[k] \in Whitespace}}

WellFormedHeader(line) == NamedPaths(line) # {}

NamedPath(line) == CHOOSE P \in NamedPaths(line) : TRUE

\* The members of the set S of numbers, in increasing order.
Ascending(S) ==
    [m \in 1..Cardinality(S) |->
        CHOOSE k \in S : Cardinality({x \in S : x <= k}) = m]

\* The indices of the input lines of the form 'diff --git a/<P> b/<P>'.
WellFormedAt == Ascending({k \in 1..Len(lines) : WellFormedHeader(lines[k])})

\* Whether line is 'diff --git a/<path> b/<path>', the two paths non-empty.
MatchesHeaderPattern(line) ==
    /\ StartsWith(line, DiffGit \o <<" ", "a", "/">>)
    /\ \E p \in 15..(Len(line) - 3) :
          line[p] = " " /\ line[p + 1] = "b" /\ line[p + 2] = "/"

\* The indices of the input lines that match the header pattern.
HeaderPatternAt ==
    Ascending({k \in 1..Len(lines) : MatchesHeaderPattern(lines[k])})

\* What get_pr_diff has returned: nothing when it raised.
Returned == IF pc = "split_done" THEN diff_files ELSE <<>>

\* C1: the split never raises: for every diff text, also one with a line
\* that starts with 'diff --git' and has no 'b/<path>', it returns a sequence
\* of fragments.
C1_SplitNeverRaises == pc # "raised"

\* C2: the fragment a header line 'diff --git a/<P> b/<P>' opens has path
\* exactly P, trailing whitespace removed, also when P holds 'b/'.
C2_PathIsPostChangePath ==
    \A k \in 1..Len(ScanFragments) :
        \A P \in NamedPaths(SplitNL(ScanFragments[k].diff)[1]) :
            ScanFragments[k].file = P

\* C3: for a diff text whose header lines name F1, ..., Fn in that order, the
\* split returns n fragments whose paths are F1, ..., Fn.
C3_PathsInHeaderOrder ==
    (/\ pc = "split_done"
     /\ \A k \in 1..Len(lines) : IsHeader(lines[k]) => WellFormedHeader(lines[k]))
    => LET h == WellFormedAt
       IN  /\ Len(diff_files) = Len(h)
           /\ \A m \in 1..Len(h) : diff_files[m].file = NamedPath(lines[h[m]])

\* C4: the body of the m-th returned fragment is, line for line, the input
\* from the m-th line that matches 'diff --git a/<path> b/<path>' up to the
\* next such line (or the end): every other line is in the fragment of the
\* nearest header before it and in no other, and lines before the first
\* header are in none.
C4_NoCrossFileBleed ==
    pc \in {"split_done", "raised"}
    => LET h == HeaderPatternAt
           stop(m) == IF m = Len(h) THEN Len(lines) ELSE h[m + 1] - 1
       IN  /\ Len(Returned) = Len(h)
           /\ \A m \in 1..Len(h) :
                 SplitNL(Returned[m].diff) = SubSeq(lines, h[m], stop(m))

\* The bodies as emitted, consecutive bodies separated by one newline.
ConcatBodies(fs) == JoinNL([k \in 1..Len(fs) |-> fs[k].diff])

\* C9: splitting the concatenation of the returned bodies returns the same
\* fragments: same length, paths and bodies.
C9_ReSplitRoundTrip ==
    pc = "split_done" => GetPrDiff(ConcatBodies(diff_files)) = diff_files

\* A returned split of two fragments, the first with a body line.
C9_Witness ==
    /\ pc = "split_done"
    /\ Len(diff_files) = 2
    /\ Len(SplitNL(diff_files[1].diff)) = 2
    /\ diff_files[1].file # diff_files[2].file

(***************************************************************************)
(* Properties of the comment extractor (under SpecExtract).                *)
(***************************************************************************)
inParse == pc \in {"parse", "parsed"}

\* The records of the scan so far: the closed ones, then the open one.
Records == IF pc = "parse" THEN CloseComment(Parse) ELSE comments

\* 'Line' in any letter case.
AnyCaseWords ==
    {w \in [1..4 -> {"L", "l", "I", "i", "N", "n", "E", "e"}] :
        /\ w[1] \in {"L", "l"} /\ w[2] \in {"I", "i"}
        /\ w[3] \in {"N", "n"} /\ w[4] \in {"E", "e"}}

\* 'Line' and 'line' only.
TwoWords == {<<"L", "i", "n", "e">>, <<"l", "i", "n", "e">>}

\* Whether line holds, anywhere, one of words, a space, one or more digits
\* and a colon.
HoldsMarker(line, words) ==
    \E p \in 1..Len(line) : \E q \in 1..Len(line) :
        /\ p + 3 <= Len(line) /\ SubSeq(line, p, p + 3) \in words
        /\ q >= p + 6
        /\ line[p + 4] = " "
        /\ \A k \in (p + 5)..(q - 1) : line[k] \in Digits
        /\ line[q] = ":"

\* The indices of the passed lines that are marker lines: that hold 'Line'
\* or 'line', a space, digits and a colon.
MarkerAt ==
    Ascending({k \in 1..(j - 1) : HoldsMarker(review_lines[k], TwoWords)})

\* The non-blank lines of ls, each trimmed.
TrimmedNonBlank(ls) ==
    LET nb == SelectSeq(ls, LAMBDA l : Strip(l) # <<>>)
    IN  [k \in 1..Len(nb) |-> Strip(nb[k])]

\* C5: one record per marker line, in transcript order; the content of the
\* m-th record is one first line followed by the trimmed non-blank lines
\* between the m-th marker line and the next one, each on a line of its own;
\* blank lines and lines before the first marker add nothing.
C5_MarkerBoundaryGrouping ==
    inParse
    => LET h == MarkerAt
           stop(m) == IF m = Len(h) THEN j - 1 ELSE h[m + 1] - 1
       IN  /\ Len(Records) = Len(h)
           /\ \A m \in 1..Len(h) :
                 Tail(SplitNL(Records[m].content))
                    = TrimmedNonBlank(SubSeq(review_lines, h[m] + 1, stop(m)))

\* The marker-boundary example: 'Line 5: ...', a line more, 'line 12: ...'
\* gave two records, the first with the line more as its second line.
C5_Witness ==
    /\ pc = "parsed"
    /\ review_lines = <<MarkA, MoreA, MarkB>>
    /\ Len(comments) = 2
    /\ comments[1].line = 5 /\ comments[2].line = 12
    /\ SplitNL(comments[1].content)[2] = Strip(MoreA)
    /\ Len(SplitNL(comments[2].content)) = 1

\* C6 as stated: a passed line opened a record iff it holds 'Line' in any
\* letter case, a space, digits and a colon.
C6_MarkerAnyCase ==
    inParse
    => Len(Records)
          = Cardinality({k \in 1..(j - 1) :
                            HoldsMarker(review_lines[k], AnyCaseWords)})

\* C6 amended: a passed line opened a record iff it holds, anywhere, 'Line'
\* or 'line' (these two spellings only), a space, digits and a colon.
C6_MarkerLineOrline ==
    inParse
    => Len(Records)
          = Cardinality({k \in 1..(j - 1) :
                            HoldsMarker(review_lines[k], TwoWords)})

\* 'LINE 7:' opened no record, while 'line 12:' and the unanchored
\* 'Note: Line 5:' each opened one.
C6_Witness ==
    /\ pc = "parsed"
    /\ \E k \in 1..Len(review_lines) : review_lines[k] = MarkUpper
    /\ \E k \in 1..Len(review_lines) : review_lines[k] = MarkB
    /\ \E k \in 1..Len(review_lines) : review_lines[k] = MarkNote
    /\ Len(comments) = 2

\* The text of a marker line after the colon that ends the marker.
AfterMarkerColon(line) ==
    SubSeq(line, DigitRunEnd(line, MarkerMatch(line) + 5) + 2, Len(line))

\* C7: the record a marker line opens has the marker's number as line and,
\* as content, the trimmed text after the colon that ends the marker.
C7_ContentAfterMarkerColon ==
    (pc = "parse" /\ j > 1 /\ MarkerMatch(review_lines[j - 1]) # 0)
    => /\ current_comment.line = IntOf(MarkerDigits(review_lines[j - 1]))
       /\ current_comment.content = Strip(AfterMarkerColon(review_lines[j - 1]))

\* C8: every record, open or closed, has a line >= 1.
C8_LineIsPositive ==
    inParse => \A k \in 1..Len(Records) : Records[k].line >= 1

(***************************************************************************)
(* Properties of review_code (under Spec).                                 *)
(***************************************************************************)
\* The numbers of the marker lines of a transcript, in order.
MarkerNumbers(text) ==
    LET ls == SplitNL(text)
        h  == Ascending({k \in 1..Len(ls) : HoldsMarker(ls[k], TwoWords)})
    IN  [m \in 1..Len(h) |-> IntOf(MarkerDigits(ls[h[m]]))]

\* For the fragments k, k + 1, ... whose transcripts were collected: one
\* (file, line) pair per marker line, by fragment and then by marker.
RECURSIVE Attribution(_)
Attribution(k) ==
    IF k > Len(responses) \/ k >= fidx THEN <<>>
    ELSE [m \in 1..Len(MarkerNumbers(responses[k])) |->
             [file |-> diff_files[k].file,
              line |-> MarkerNumbers(responses[k])[m]]]
         \o Attribution(k + 1)

\* C10: every record of a parse has the file the parse was given, and the
\* records review_code has collected are, fragment by fragment and marker by
\* marker, attributed to the fragment whose transcript produced them.
C10_FileAttribution ==
    /\ inParse => \A k \in 1..Len(Records) : Records[k].file = filename
    /\ pc \in {"review", "reviewed"}
       => [g \in 1..Len(review_comments) |->
              [file |-> review_comments[g].file,
               line |-> review_comments[g].line]]
          = Attribution(1)

\* review_code returned records of two fragments, two of them of the first.
C10_Witness ==
    /\ pc = "reviewed"
    /\ Len(diff_files) = 2
    /\ Len(review_comments) >= 3
    /\ review_comments[1].file = diff_files[1].file
    /\ review_comments[2].file = diff_files[1].file
    /\ review_comments[Len(review_comments)].file = diff_files[2].file
    /\ diff_files[1].file # diff_files[2].file

=============================================================================
